---- MODULE Spec2Model ----
(***************************************************************************)
(* A model of rbxflags/js-api: the flag-list preprocessor                  *)
(* (src/src/FlagListPreprocessor.ts) and the RFO orchestration class       *)
(* (src/unnamed/part_001).                                                 *)
(*                                                                         *)
(*   Spec          the content cache: concurrently pending downloadFile    *)
(*                 calls sharing the _cache directory                      *)
(*   SpecLoad      preprocessFlags / process: fetching the remote flag     *)
(*                 lists, reading the local ones, processing them          *)
(*   SpecFiles     getFlagFiles and mergeFlagFiles over a processed flag   *)
(*                 list whose .enabled and .value the caller changes       *)
(*   SpecMerge     mergeFlagFiles over explicit lists of flag files        *)
(*   SpecDefaults  defaultRecursive over small nested values               *)
(***************************************************************************)
EXTENDS Integers, Sequences, FiniteSets, TLC

VARIABLES
    cache,      \* the _cache directory: path -> content of the file, or NoFile
    calls,      \* the downloadFile calls: each one's arguments, position and outcome
    config,     \* FlagListPreprocessor.config.urls: the remote sources
    flagListDir, \* the files of the local flagLists/ directory, in readdir order
    flagLists,  \* FlagListPreprocessor.flagLists
    fetches,    \* the fetchFlagList promises of the pending Promise.all
    loadPc,     \* where preprocessFlags / process stands
    loadError,  \* what preprocessFlags threw
    args,       \* the arguments of the preprocessFlags call
    runs,       \* how many preprocessFlags calls were made
    processedFlagList, \* RFO.processedFlagList
    disk,       \* the parsed content of the files getFlagFiles may name, or NoFile
    returned,   \* the last RFO operation: its name, its arguments, what it returned
    obj,        \* the value given to defaultRecursive
    defaultObj, \* the defaults given to defaultRecursive
    defaulted   \* what the calls of defaultRecursive made so far returned

cacheVars == <<cache, calls>>

loadVars == <<config, flagListDir, flagLists, fetches, loadPc, loadError, args, runs>>

rfoVars == <<processedFlagList>>

fileVars == <<disk, returned>>

defaultVars == <<obj, defaultObj, defaulted>>

vars == <<cacheVars, loadVars, rfoVars, fileVars, defaultVars>>

(***************************************************************************)
(* Bounds of the model                                                     *)
(***************************************************************************)
\* how many downloadFile calls are issued in one behaviour
MaxCalls == 2
\* how many sources config.urls.flagLists names besides the default one
MaxSources == 2
\* how many preprocessFlags calls are made in one behaviour
MaxRuns == 2
\* how many options the value of a multiple-choice feature may name
MaxSelection == 2
\* how many files an explicit mergeFlagFiles / dumpFlags argument may name
MaxFiles == 3
\* how long an array given to defaultRecursive may be
MaxArrayLen == 2

(***************************************************************************)
(* Strings the cache code computes with                                    *)
(***************************************************************************)
\* String.prototype.toUpperCase, on the characters algorithm names are made of;
\* an algorithm name is a sequence of one-character strings
UpperChar(ch) ==
    CASE ch = "m" -> "M"
      [] ch = "d" -> "D"
      [] ch = "s" -> "S"
      [] ch = "h" -> "H"
      [] ch = "a" -> "A"
      [] ch = "n" -> "N"
      [] ch = "o" -> "O"
      [] ch = "e" -> "E"
      [] OTHER -> ch

toUpperCase(s) == [i \in DOMAIN s |-> UpperChar(s[i])]

MD5 == <<"M", "D", "5">>
SHA1 == <<"S", "H", "A", "1">>
SHA256 == <<"S", "H", "A", "2", "5", "6">>
SHA512 == <<"S", "H", "A", "5", "1", "2">>
none == <<"n", "o", "n", "e">>

\* the algorithm names a manifest may declare: the legacy ones in several letter
\* cases, two supported ones, "none", and a name that is not "none" to the code
\* and that crypto.createHash does not know
Algorithms ==
    { <<"m", "d", "5">>, MD5, <<"S", "h", "a", "1">>, SHA1,
      <<"s", "h", "a", "2", "5", "6">>, SHA512,
      none, <<"N", "o", "n", "e">> }

\* the bodies a server may send
Contents == {"b1", "b2"}

\* the hex digests of those bodies
Sha256Hex == [b \in Contents |-> IF b = "b1" THEN "d1" ELSE "d2"]
Sha512Hex == [b \in Contents |-> IF b = "b1" THEN "e1" ELSE "e2"]

Unsupported == "Digest method not supported"

\* crypto.createHash(algorithm).update(buffer).digest('hex'): OpenSSL looks the
\* name up without regard to case and throws for a name it does not know
createHash(algorithm, buffer) ==
    IF toUpperCase(algorithm) = SHA512 THEN Sha512Hex[buffer]
    ELSE IF toUpperCase(algorithm) = SHA256 THEN Sha256Hex[buffer]
    ELSE Unsupported

\* the digests a manifest may declare
Digests == {"d1", "e1", "e2"}
Null == "null"

FilePaths == {"a.json", "b.json"}
BaseUrls == {"", "https://h/"}

\* MiscTypes File: f, h.algorithm, h.digest (null exactly when the algorithm is "none")
Files ==
    { [f |-> p, h |-> [algorithm |-> a, digest |-> d]] :
        p \in FilePaths, a \in Algorithms \ {none}, d \in Digests }
    \cup { [f |-> p, h |-> [algorithm |-> none, digest |-> Null]] : p \in FilePaths }

\* `_cache/${digest}`
CachePath(digest) == "_cache/" \o digest

CachePaths == {CachePath(d) : d \in Digests \cup {Sha512Hex[b] : b \in Contents}}

NoFile == "ENOENT"
NoRequest == "no request"
NoProbe == "no lookup"
NoResponse == "no response"
NoResult == "pending"

\* fs.existsSync
existsSyncWrongDir(path) == ("./" \o path) \in DOMAIN cache /\ cache["./" \o path] # NoFile

existsSync(path) == path \in DOMAIN cache /\ cache[path] # NoFile

\* the errors downloadFile throws
InsecureMD5 == "FATAL: INSECURE: MD5 is not supported"
InsecureSHA1 == "FATAL: INSECURE: SHA1 is not supported"
FailedToDownload == "Failed to download file"
InvalidHash == "has an invalid hash"
AxiosError == "AxiosError"

\* what a request may end with: 200 and a body, 204 (no content), 404
Responses ==
    { [status |-> 200, data |-> b] : b \in Contents }
    \cup { [status |-> s, data |-> Null] : s \in {204, 404} }

\* axios rejects a response whose status is not 2xx (its default validateStatus)
AxiosRejects(status) == status < 200 \/ status > 299

\* file.h.algorithm.toUpperCase() === 'MD5', and the same for SHA1
IsMD5ExactCase(algorithm) == algorithm = MD5

IsMD5(algorithm) == toUpperCase(algorithm) = MD5

IsSHA1(algorithm) == toUpperCase(algorithm) = SHA1

\* a call before it is made; afterwards: its arguments (file, baseUrl), its
\* position (pc), the path it looked up in the cache (probed), the URL it
\* requested (url), the response it got (fileResponse), and what it returned
\* or threw (result)
IdleCall ==
    [pc |-> "idle", file |-> Null, baseUrl |-> Null, probed |-> NoProbe,
     url |-> NoRequest, fileResponse |-> NoResponse, result |-> NoResult]

(***************************************************************************)
(* downloadFile, up to its first await: the two security throws, the       *)
(* cache lookup, and the request it issues                                 *)
(***************************************************************************)
downloadFile(c, file, baseUrl) ==
    /\ calls[c].pc = "idle"
    /\ \A b \in 1..(c - 1) : calls[b].pc # "idle"
    /\ LET f == baseUrl \o file.f
           started == [IdleCall EXCEPT !.file = file, !.baseUrl = baseUrl]
           fileRoute == CachePath(file.h.digest)
       IN  IF IsMD5(file.h.algorithm)
           THEN calls' = [calls EXCEPT ![c] =
                    [started EXCEPT !.pc = "thrown", !.result = InsecureMD5]]
           ELSE IF IsSHA1(file.h.algorithm)
           THEN calls' = [calls EXCEPT ![c] =
                    [started EXCEPT !.pc = "thrown", !.result = InsecureSHA1]]
           ELSE IF file.h.algorithm # none
           THEN IF existsSync(fileRoute)
                THEN calls' = [calls EXCEPT ![c] =
                         [started EXCEPT !.pc = "returned", !.probed = fileRoute,
                                         !.result = fileRoute]]
                ELSE calls' = [calls EXCEPT ![c] =
                         [started EXCEPT !.pc = "await", !.probed = fileRoute,
                                         !.url = fileRoute]]
           ELSE calls' = [calls EXCEPT ![c] =
                    [started EXCEPT !.pc = "await", !.url = f]]
    /\ UNCHANGED cache
    /\ UNCHANGED <<loadVars, rfoVars, fileVars, defaultVars>>

(***************************************************************************)
(* downloadFile from the response of its request to its end                *)
(***************************************************************************)
\* the same with the file written before its hash is compared
downloadFileResumeWriteFirst(c, fileResponse) ==
    /\ calls[c].pc = "await"
    /\ LET file == calls[c].file
           fileRoute == IF file.h.algorithm # none THEN CachePath(file.h.digest)
                        ELSE CachePath(createHash(SHA512, fileResponse.data))
           ok == /\ ~AxiosRejects(fileResponse.status)
                 /\ fileResponse.status = 200
           good == \/ file.h.algorithm = none
                   \/ createHash(file.h.algorithm, fileResponse.data) = file.h.digest
       IN  /\ cache' = IF ok THEN [cache EXCEPT ![fileRoute] = fileResponse.data]
                       ELSE cache
           /\ calls' = [calls EXCEPT
                  ![c].fileResponse = fileResponse,
                  ![c].pc = IF ok /\ good THEN "returned" ELSE "thrown",
                  ![c].result = IF ok /\ good THEN fileRoute
                                ELSE IF ok THEN InvalidHash ELSE AxiosError]
    /\ UNCHANGED <<loadVars, rfoVars, fileVars, defaultVars>>

\* the same with the fetched body written without its hash being compared
downloadFileResumeNoCompare(c, fileResponse) ==
    /\ calls[c].pc = "await"
    /\ LET file == calls[c].file
           fileBuffer == fileResponse.data
           fileRoute == IF file.h.algorithm # none THEN CachePath(file.h.digest)
                        ELSE CachePath(createHash(SHA512, fileBuffer))
           ok == /\ ~AxiosRejects(fileResponse.status)
                 /\ fileResponse.status = 200
                 /\ (file.h.algorithm # none =>
                         createHash(file.h.algorithm, fileBuffer) # Unsupported)
       IN  /\ cache' = IF ok THEN [cache EXCEPT ![fileRoute] = fileBuffer] ELSE cache
           /\ calls' = [calls EXCEPT
                  ![c].fileResponse = fileResponse,
                  ![c].pc = IF ok THEN "returned" ELSE "thrown",
                  ![c].result = IF ok THEN fileRoute ELSE AxiosError]
    /\ UNCHANGED <<loadVars, rfoVars, fileVars, defaultVars>>

downloadFileResume(c, fileResponse) ==
    /\ calls[c].pc = "await"
    /\ LET file == calls[c].file
           fileRoute == CachePath(file.h.digest)
           throw(e) == /\ calls' = [calls EXCEPT ![c].pc = "thrown", ![c].result = e,
                                                 ![c].fileResponse = fileResponse]
                       /\ UNCHANGED cache
           return(path) == calls' = [calls EXCEPT ![c].pc = "returned",
                                                  ![c].result = path,
                                                  ![c].fileResponse = fileResponse]
       IN  IF AxiosRejects(fileResponse.status) THEN throw(AxiosError)
           ELSE IF fileResponse.status # 200 THEN throw(FailedToDownload)
           ELSE IF file.h.algorithm # none
           THEN LET fileBuffer == fileResponse.data
                    fileHash == createHash(file.h.algorithm, fileBuffer)
                IN  IF fileHash = Unsupported THEN throw(Unsupported)
                    ELSE IF fileHash # file.h.digest THEN throw(InvalidHash)
                    ELSE /\ cache' = [cache EXCEPT ![fileRoute] = fileBuffer]
                         /\ return(fileRoute)
           ELSE LET fileBuffer == fileResponse.data
                    fileHash == createHash(SHA512, fileBuffer)
                IN  /\ cache' = [cache EXCEPT ![CachePath(fileHash)] = fileBuffer]
                    /\ return(CachePath(fileHash))
    /\ UNCHANGED <<loadVars, rfoVars, fileVars, defaultVars>>

\* what earlier runs may have left under a cache path: nothing, or a body that was
\* written under its own digest
Cacheable(path) ==
    {NoFile} \cup {b \in Contents : path \in {CachePath(Sha256Hex[b]), CachePath(Sha512Hex[b])}}

InitCache ==
    /\ cache \in {k \in [CachePaths -> Contents \cup {NoFile}] :
                     \A path \in CachePaths : k[path] \in Cacheable(path)}
    /\ calls = [c \in 1..MaxCalls |-> IdleCall]

(***************************************************************************)
(* Loading the flag lists: RFO.preprocessFlags, FlagListPreprocessor       *)
(* .process, fetchFlagLists, fetchFlagList, readLocalFlagLists             *)
(***************************************************************************)
\* the sources config.urls.flagLists may name, and the default one
ExtraSources == [i \in 1..MaxSources |-> [name |-> "extra", url |-> i]]

DefaultFlagList == [name |-> "Default Flags", url |-> 0]

\* the manifest a source serves, one a local file holds, one the caller passes
RemoteManifest(source) == [from |-> "remote", id |-> source.url]
LocalManifest(file) == [from |-> "local", id |-> file.name]
CallerManifest == [from |-> "caller", id |-> 1]

\* a promise of fetchFlagList: pending, fulfilled with a manifest or with null,
\* or rejected
Pending == [state |-> "pending"]
Rejected == [state |-> "rejected"]
FulfilledWith(value) == [state |-> "fulfilled", value |-> value]
JsNull == [t |-> "null"]

\* what a request for a flag list may end with: 200 and a manifest in JSON5,
\* 200 and a text that is no JSON5, 204, 404
FlagResponses == {"200 json5", "200 garbage", "204", "404"}

FailedToParseRemote == "Failed to parse flag list (remote)"
FailedToParseLocal == "Failed to parse flag list (local)"
NoFlagsFound == "No flags found"
ProcessingFailed == "processFlagList threw"
NoError == "no error"

\* fetchFlagList once its request has ended: the manifest, null (a 2xx status
\* that is not 200), or the error its catch block throws (axios rejecting the
\* status, or json5.parse throwing)
fetchFlagList(flagListUrl, flagResponse) ==
    IF flagResponse = "404" THEN Rejected
    ELSE IF flagResponse = "204" THEN FulfilledWith(JsNull)
    ELSE IF flagResponse = "200 garbage" THEN Rejected
    ELSE FulfilledWith(RemoteManifest(flagListUrl))

\* Array.prototype.filter((flagList) => flagList !== null)
RECURSIVE filterNotNull(_)
filterNotNull(flagListsData) ==
    IF flagListsData = <<>> THEN <<>>
    ELSE IF Head(flagListsData) = JsNull THEN filterNotNull(Tail(flagListsData))
    ELSE <<Head(flagListsData)>> \o filterNotNull(Tail(flagListsData))

\* readLocalFlagLists: the manifests of the files, or a throw at the first file
\* that does not parse
readLocalFlagLists ==
    IF \E i \in DOMAIN flagListDir : ~flagListDir[i].parses
    THEN [thrown |-> TRUE, value |-> <<>>]
    ELSE [thrown |-> FALSE,
          value |-> [i \in DOMAIN flagListDir |-> LocalManifest(flagListDir[i])]]

\* the sources of one fetchFlagLists call, in the order of its Promise.all
Sources == <<DefaultFlagList>> \o config

\* preprocessFlags up to the first await of process: the list is cleared on
\* request, the caller's manifests are pushed, and either every source is
\* requested or processFlagLists is entered
preprocessFlags(clearFlagList, flagList, includeFlagsFromDisk) ==
    /\ loadPc \in {"idle", "done", "thrown"}
    /\ runs < MaxRuns
    /\ runs' = runs + 1
    /\ args' = [clearFlagList |-> clearFlagList, flagList |-> flagList,
                includeFlagsFromDisk |-> includeFlagsFromDisk]
    /\ processedFlagList' = IF clearFlagList THEN <<>> ELSE processedFlagList
    /\ flagLists' = flagLists \o flagList
    /\ loadError' = NoError
    /\ IF includeFlagsFromDisk
       THEN /\ fetches' = [i \in DOMAIN Sources |-> Pending]
            /\ loadPc' = "fetching"
       ELSE /\ fetches' = fetches
            /\ loadPc' = "processing"
    /\ UNCHANGED <<config, flagListDir>>
    /\ UNCHANGED <<cacheVars, fileVars, defaultVars>>

\* one request of fetchFlagLists ends; Promise.all rejects with the first
\* rejection, and once every promise is fulfilled fetchFlagLists goes on to
\* its end: the filter, the assignment, the local files
fetchFlagListSettles(i, flagResponse) ==
    /\ loadPc = "fetching"
    /\ i \in DOMAIN fetches
    /\ fetches[i] = Pending
    /\ LET settled == fetchFlagList(Sources[i], flagResponse)
           promises == [fetches EXCEPT ![i] = settled]
           flagListsData == [j \in DOMAIN promises |-> promises[j].value]
       IN  /\ fetches' = promises
           /\ IF settled = Rejected
              THEN /\ loadPc' = "thrown"
                   /\ loadError' = FailedToParseRemote
                   /\ flagLists' = flagLists
              ELSE IF \E j \in DOMAIN promises : promises[j] = Pending
              THEN UNCHANGED <<loadPc, loadError, flagLists>>
              ELSE IF readLocalFlagLists.thrown
              THEN /\ flagLists' = filterNotNull(flagListsData)
                   /\ loadPc' = "thrown"
                   /\ loadError' = FailedToParseLocal
              ELSE /\ flagLists' = filterNotNull(flagListsData) \o readLocalFlagLists.value
                   /\ loadPc' = "processing"
                   /\ loadError' = loadError
    /\ UNCHANGED <<config, flagListDir, args, runs, processedFlagList>>
    /\ UNCHANGED <<cacheVars, fileVars, defaultVars>>

\* the manifest processFlagList makes of a manifest
Processed(flagList) == [from |-> "processed", id |-> flagList]

\* processFlagLists and the rest of preprocessFlags: every manifest of
\* flagLists is processed (a download or a nameless feature makes it throw),
\* the result is pushed, and an empty processedFlagList is an error
processFlagLists(succeeds) ==
    /\ loadPc = "processing"
    /\ IF ~succeeds /\ flagLists # <<>>
       THEN /\ loadPc' = "thrown"
            /\ loadError' = ProcessingFailed
            /\ processedFlagList' = processedFlagList
       ELSE LET processedFlagLists == [i \in DOMAIN flagLists |-> Processed(flagLists[i])]
            IN  /\ processedFlagList' = processedFlagList \o processedFlagLists
                /\ IF Len(processedFlagList') = 0
                   THEN loadPc' = "thrown" /\ loadError' = NoFlagsFound
                   ELSE loadPc' = "done" /\ loadError' = loadError
    /\ UNCHANGED <<config, flagListDir, flagLists, fetches, args, runs>>
    /\ UNCHANGED <<cacheVars, fileVars, defaultVars>>

\* the prefixes of a sequence
Prefixes(seq) == {SubSeq(seq, 1, n) : n \in 0..Len(seq)}

LocalDirs ==
    { <<>>, <<[name |-> "a.json", parses |-> TRUE]>>,
      <<[name |-> "a.json", parses |-> FALSE]>>,
      <<[name |-> "a.json", parses |-> TRUE], [name |-> "b.toml", parses |-> TRUE]>> }

NoArgs == [clearFlagList |-> FALSE, flagList |-> <<>>, includeFlagsFromDisk |-> FALSE]

InitLoad ==
    /\ config \in Prefixes(ExtraSources)
    /\ flagListDir \in LocalDirs
    /\ flagLists = <<>>
    /\ fetches = <<>>
    /\ loadPc = "idle"
    /\ loadError = NoError
    /\ args = NoArgs
    /\ runs = 0
    /\ processedFlagList = <<>>

IdleLoad ==
    /\ config = <<>>
    /\ flagListDir = <<>>
    /\ flagLists = <<>>
    /\ fetches = <<>>
    /\ loadPc = "idle"
    /\ loadError = NoError
    /\ args = NoArgs
    /\ runs = 0
    /\ processedFlagList = <<>>

(***************************************************************************)
(* Resolving and merging the flag files: RFO.getFlagFiles, mergeFlagFiles  *)
(***************************************************************************)
\* JSON values: numbers and objects (a function from keys to values)
Num(n) == [t |-> "num", v |-> n]
Obj(m) == [t |-> "obj", m |-> m]

\* the processed features and items processFlagList makes: value starts as
\* default, enabled starts as default
SingleChoice(name, options, default) ==
    [name |-> name, options |-> options, default |-> default, value |-> default,
     multiple |-> FALSE]

MultipleChoice(name, options, default) ==
    [name |-> name, options |-> options, default |-> default, value |-> default,
     multiple |-> TRUE]

ProcessedItem(name, default, base, features) ==
    [name |-> name, default |-> default, enabled |-> default, base |-> base,
     features |-> features]

Graphics ==
    SingleChoice("Graphics",
                 [o \in {"DX11", "Vulkan"} |->
                     IF o = "DX11" THEN <<"_cache/fa">> ELSE <<"_cache/fb">>],
                 "DX11")

Tweaks ==
    MultipleChoice("Tweaks",
                   [o \in {"A", "B"} |->
                       IF o = "A" THEN <<"_cache/fc">> ELSE <<"_cache/fb", "_cache/fa">>],
                   <<"A">>)

\* a processed flag list: its items in the insertion order of the object
FlagListOne ==
    << ProcessedItem("FastFlags", TRUE, <<"_cache/p1">>, <<Graphics>>),
       ProcessedItem("Extras", FALSE, <<"_cache/p2">>, <<Tweaks>>) >>

FlagListTwo == << ProcessedItem("Other", TRUE, <<"_cache/fc">>, <<>>) >>

\* the values a caller may give a feature
SingleValues == {"DX11", "Vulkan", "", "Bogus"}

RECURSIVE SeqsUpTo(_, _)
SeqsUpTo(S, n) ==
    IF n = 0 THEN {<<>>}
    ELSE SeqsUpTo(S, n - 1)
         \cup {Append(q, x) : q \in {r \in SeqsUpTo(S, n - 1) : Len(r) = n - 1}, x \in S}

MultipleValues == SeqsUpTo({"A", "B", "Bogus"}, MaxSelection)

FlagFilePaths == {"_cache/p1", "_cache/p2", "_cache/fa", "_cache/fb", "_cache/fc"}

\* a file of the disk: absent, or a text that json5.parse turns into doc
Absent == [exists |-> FALSE, doc |-> <<>>]
Document(doc) == [exists |-> TRUE, doc |-> doc]

DocP1 == [k \in {"A", "B"} |-> IF k = "A" THEN Num(1) ELSE Num(2)]
DocFa == [k \in {"B", "C"} |-> IF k = "B" THEN Num(3) ELSE Num(4)]
DocFb == [k \in {"B", "C"} |-> IF k = "B" THEN Obj([x \in {"x"} |-> Num(1)])
                                ELSE Obj([x \in {"x", "y"} |-> Num(2)])]
DocFc == [k \in {"C"} |-> Obj([x \in {"y"} |-> Num(3)])]

Disks ==
    { [path \in FlagFilePaths |->
          CASE path = "_cache/p1" -> Document(DocP1)
            [] path = "_cache/fa" -> Document(DocFa)
            [] path = "_cache/fb" -> Document(DocFb)
            [] path = "_cache/fc" -> IF fcExists THEN Document(DocFc) ELSE Absent
            [] OTHER -> Document(<<>>)] : fcExists \in BOOLEAN }

InvalidFlagValue == "Invalid flag value"
DidNotPreprocess == "Did not preprocess flags"
FlagFileDoesNotExist == "Flag file does not exist"

\* the local flagFiles of getFlagFiles, or the error thrown so far
Pushing(flagFiles) == [thrown |-> FALSE, error |-> NoError, value |-> flagFiles]
Throwing(error) == [thrown |-> TRUE, error |-> error, value |-> <<>>]

\* if (list.enabled)
IsEnabledByDefault(list) == list.default

IsEnabled(list) == list.enabled

\* for (const flag of feature.value): push the option's files, throw for a
\* flag that names no option
RECURSIVE pushMultiple(_, _, _)
pushMultiple(acc, feature, flags) ==
    IF acc.thrown \/ flags = <<>> THEN acc
    ELSE IF Head(flags) \notin DOMAIN feature.options THEN Throwing(InvalidFlagValue)
    ELSE pushMultiple(Pushing(acc.value \o feature.options[Head(flags)]),
                      feature, Tail(flags))

\* else if (feature.value && feature.options[feature.value]) push its files
pushSingleDefault(acc, feature) ==
    IF feature.default # "" /\ feature.default \in DOMAIN feature.options
    THEN Pushing(acc.value \o feature.options[feature.default])
    ELSE acc

pushSingle(acc, feature) ==
    IF feature.value # "" /\ feature.value \in DOMAIN feature.options
    THEN Pushing(acc.value \o feature.options[feature.value])
    ELSE acc

\* list.features.forEach
RECURSIVE forEachFeature(_, _)
forEachFeature(acc, features) ==
    IF acc.thrown \/ features = <<>> THEN acc
    ELSE LET feature == Head(features)
             pushed == IF feature.multiple
                       THEN pushMultiple(acc, feature, feature.value)
                       ELSE pushSingle(acc, feature)
         IN  forEachFeature(pushed, Tail(features))

\* for (const list of Object.values(flagLists))
RECURSIVE forEachItem(_, _)
forEachItem(acc, lists) ==
    IF acc.thrown \/ lists = <<>> THEN acc
    ELSE LET list == Head(lists)
             pushed == IF IsEnabled(list)
                       THEN forEachFeature(Pushing(acc.value \o list.base), list.features)
                       ELSE acc
         IN  forEachItem(pushed, Tail(lists))

\* for (const flagLists of this.processedFlagList)
RECURSIVE forEachFlagList(_, _)
forEachFlagList(acc, flagListsLeft) ==
    IF acc.thrown \/ flagListsLeft = <<>> THEN acc
    ELSE forEachFlagList(forEachItem(acc, Head(flagListsLeft)), Tail(flagListsLeft))

\* RFO.hasProcessedFlags
hasProcessedFlags == Len(processedFlagList) > 0

\* RFO.getFlagFiles, as a value
GetFlagFiles ==
    IF ~hasProcessedFlags THEN Throwing(DidNotPreprocess)
    ELSE forEachFlagList(Pushing(<<>>), processedFlagList)

\* {...merged, ...doc}
SpreadFirstWins(merged, doc) ==
    [k \in DOMAIN merged \cup DOMAIN doc |-> IF k \in DOMAIN merged THEN merged[k] ELSE doc[k]]

Spread(merged, doc) ==
    [k \in DOMAIN merged \cup DOMAIN doc |-> IF k \in DOMAIN doc THEN doc[k] ELSE merged[k]]

\* the loop of mergeFlagFiles
RECURSIVE mergeLoop(_, _)
mergeLoop(merged, flagFiles) ==
    IF flagFiles = <<>> THEN Pushing(merged)
    ELSE IF ~disk[Head(flagFiles)].exists THEN Throwing(FlagFileDoesNotExist)
    ELSE mergeLoop(Spread(merged, disk[Head(flagFiles)].doc), Tail(flagFiles))

\* the caller enables or disables an item of processedFlagList
setEnabled(l, i, enabled) ==
    /\ l \in DOMAIN processedFlagList
    /\ i \in DOMAIN processedFlagList[l]
    /\ processedFlagList' = [processedFlagList EXCEPT ![l][i].enabled = enabled]
    /\ returned' = [op |-> "setEnabled", args |-> <<>>, thrown |-> FALSE,
                    error |-> NoError, value |-> <<>>]
    /\ UNCHANGED <<disk, cacheVars, loadVars, defaultVars>>

\* the caller selects the option(s) of a feature
setValue(l, i, k, multiple, value) ==
    /\ l \in DOMAIN processedFlagList
    /\ i \in DOMAIN processedFlagList[l]
    /\ k \in DOMAIN processedFlagList[l][i].features
    /\ processedFlagList[l][i].features[k].multiple = multiple
    /\ processedFlagList' = [processedFlagList EXCEPT ![l][i].features[k].value = value]
    /\ returned' = [op |-> "setValue", args |-> <<>>, thrown |-> FALSE,
                    error |-> NoError, value |-> <<>>]
    /\ UNCHANGED <<disk, cacheVars, loadVars, defaultVars>>

getFlagFiles ==
    /\ returned' = [op |-> "getFlagFiles", args |-> <<>>, thrown |-> GetFlagFiles.thrown,
                    error |-> GetFlagFiles.error, value |-> GetFlagFiles.value]
    /\ UNCHANGED <<disk, processedFlagList, cacheVars, loadVars, defaultVars>>

\* mergeFlagFiles(flagFiles = this.getFlagFiles()); flagFiles is the argument
\* as evaluated, a throw of the default argument included
mergeFlagFiles(flagFiles) ==
    /\ LET out == IF flagFiles.thrown THEN flagFiles ELSE mergeLoop(<<>>, flagFiles.value)
       IN  returned' = [op |-> "mergeFlagFiles", args |-> flagFiles.value,
                        thrown |-> out.thrown, error |-> out.error, value |-> out.value]
    /\ UNCHANGED <<disk, processedFlagList, cacheVars, loadVars, defaultVars>>

(***************************************************************************)
(* FlagListPreprocessor.defaultRecursive                                   *)
(***************************************************************************)
\* arrays, beside the numbers, null and objects above: a function from the
\* property names "0", "1", ... (and any other property set on the array)
Arr(m) == [t |-> "arr", m |-> m]

\* what a call that throws yields
TypeError == [t |-> "TypeError"]

EmptyObject == Obj([k \in {} |-> JsNull])

\* typeof v === 'object': objects, arrays and null
IsObject(v) == v.t \in {"obj", "arr", "null"}

\* obj[key]: undefined for a property obj does not have
Has(v, key) == v.t \in {"obj", "arr"} /\ key \in DOMAIN v.m

\* typeof objJoint[key] === 'object' && typeof defaultObj[key] === 'object'
BothObjects(objJoint, defaults, key) ==
    /\ Has(objJoint, key)
    /\ IsObject(objJoint.m[key])
    /\ IsObject(defaults.m[key])

\* for (const key in defaultObj): the property names of an object or an
\* array, none for null
ForInKeys(v) == IF v.t \in {"obj", "arr"} THEN DOMAIN v.m ELSE {}

\* defaultRecursive(obj, defaultObj): what it returns, or TypeError when it
\* reads a property of null
RECURSIVE defaultRecursive(_, _)
defaultRecursive(objJoint, defaults) ==
    LET keys == ForInKeys(defaults)
        entry(key) ==
            IF BothObjects(objJoint, defaults, key)
            THEN defaultRecursive(objJoint.m[key], defaults.m[key])
            ELSE IF Has(objJoint, key) /\ objJoint.m[key] # JsNull
                 THEN objJoint.m[key]
                 ELSE defaults.m[key]
    IN  IF keys = {} THEN objJoint
        ELSE IF objJoint.t = "null" THEN TypeError
        ELSE IF \E key \in keys : entry(key) = TypeError THEN TypeError
        ELSE [objJoint EXCEPT !.m = [k \in DOMAIN objJoint.m \cup keys |->
                                        IF k \in keys THEN entry(k) ELSE objJoint.m[k]]]

\* the values the model gives defaultRecursive
Numbers == {Num(1), Num(2)}

ArrayKeys == <<"0", "1", "2", "3">>

Arrays ==
    UNION { {Arr(m) : m \in [{ArrayKeys[i] : i \in 1..n} -> Numbers]} : n \in 0..MaxArrayLen }

SmallObjects ==
    UNION { {Obj(m) : m \in [keys -> Numbers]} : keys \in SUBSET {"c", "d"} }

Entries == Numbers \cup {JsNull} \cup Arrays \cup SmallObjects

\* an object with any entry or none under "a" and a number, null or nothing
\* under "b"
TopObjects ==
    { Obj(m) : m \in UNION { [keys -> Entries] : keys \in SUBSET {"a"} } }
    \cup { Obj(m) : m \in { f \in UNION { [keys -> Entries] : keys \in {{"b"}, {"a", "b"}} } :
                              f["b"] \in {Num(1), JsNull} } }

\* the first call
defaultRecursiveCall ==
    /\ defaulted = <<>>
    /\ defaulted' = <<defaultRecursive(obj, defaultObj)>>
    /\ UNCHANGED <<obj, defaultObj, cacheVars, loadVars, rfoVars, fileVars>>

\* a second call, on what the first one returned
defaultRecursiveAgain ==
    /\ Len(defaulted) = 1
    /\ defaulted[1] # TypeError
    /\ defaulted' = Append(defaulted, defaultRecursive(defaulted[1], defaultObj))
    /\ UNCHANGED <<obj, defaultObj, cacheVars, loadVars, rfoVars, fileVars>>

InitDefaults ==
    /\ obj \in TopObjects
    /\ defaultObj \in TopObjects
    /\ defaulted = <<>>

IdleDefaults ==
    /\ obj = EmptyObject
    /\ defaultObj = EmptyObject
    /\ defaulted = <<>>

NothingReturned ==
    [op |-> "none", args |-> <<>>, thrown |-> FALSE, error |-> NoError, value |-> <<>>]

InitFiles ==
    /\ disk \in Disks
    /\ returned = NothingReturned
    /\ processedFlagList \in
           {<<>>, <<FlagListOne>>, <<FlagListOne, FlagListTwo>>, <<FlagListTwo, FlagListOne>>}

\* the load has not run: everything of it but processedFlagList
IdleLoader ==
    /\ config = <<>>
    /\ flagListDir = <<>>
    /\ flagLists = <<>>
    /\ fetches = <<>>
    /\ loadPc = "idle"
    /\ loadError = NoError
    /\ args = NoArgs
    /\ runs = 0

IdleFiles ==
    /\ disk = <<>>
    /\ returned = NothingReturned

IdleCache ==
    /\ cache = [path \in CachePaths |-> NoFile]
    /\ calls = [c \in 1..MaxCalls |-> IdleCall]

Init ==
    /\ InitCache
    /\ IdleLoad
    /\ IdleFiles
    /\ IdleDefaults

Next ==
    \/ \E c \in 1..MaxCalls, file \in Files, baseUrl \in BaseUrls :
           downloadFile(c, file, baseUrl)
    \/ \E c \in 1..MaxCalls, fileResponse \in Responses :
           downloadFileResume(c, fileResponse)

Spec == Init /\ [][Next]_vars

InitLoading ==
    /\ IdleCache
    /\ InitLoad
    /\ IdleFiles
    /\ IdleDefaults

NextLoading ==
    \/ \E clearFlagList \in BOOLEAN, flagList \in {<<>>, <<CallerManifest>>},
          includeFlagsFromDisk \in BOOLEAN :
           preprocessFlags(clearFlagList, flagList, includeFlagsFromDisk)
    \/ \E i \in 1..(MaxSources + 1), flagResponse \in FlagResponses :
           fetchFlagListSettles(i, flagResponse)
    \/ \E succeeds \in BOOLEAN : processFlagLists(succeeds)

SpecLoad == InitLoading /\ [][NextLoading]_vars

InitResolving ==
    /\ IdleCache
    /\ IdleLoader
    /\ InitFiles
    /\ IdleDefaults

NextResolving ==
    \/ \E l \in 1..2, i \in 1..2, enabled \in BOOLEAN : setEnabled(l, i, enabled)
    \/ \E l \in 1..2, i \in 1..2, value \in SingleValues : setValue(l, i, 1, FALSE, value)
    \/ \E l \in 1..2, i \in 1..2, value \in MultipleValues : setValue(l, i, 1, TRUE, value)
    \/ getFlagFiles
    \/ mergeFlagFiles(GetFlagFiles)

SpecFiles == InitResolving /\ [][NextResolving]_vars

InitMerging ==
    /\ IdleCache
    /\ IdleLoader
    /\ disk \in Disks
    /\ returned = NothingReturned
    /\ processedFlagList = <<>>
    /\ IdleDefaults

NextMerging ==
    \E flagFiles \in SeqsUpTo(FlagFilePaths, MaxFiles) : mergeFlagFiles(Pushing(flagFiles))

SpecMerge == InitMerging /\ [][NextMerging]_vars

InitDefaulting ==
    /\ IdleCache
    /\ IdleLoader
    /\ disk = <<>>
    /\ returned = NothingReturned
    /\ processedFlagList = <<>>
    /\ InitDefaults

NextDefaulting ==
    \/ defaultRecursiveCall
    \/ defaultRecursiveAgain

SpecDefaults == InitDefaulting /\ [][NextDefaulting]_vars

(***************************************************************************)
(* The content cache: properties                                           *)
(***************************************************************************)
Called == {c \in 1..MaxCalls : calls[c].pc # "idle"}

Named(c) == calls[c].file.h.algorithm # none

Legacy(c) == toUpperCase(calls[c].file.h.algorithm) \in {MD5, SHA1}

\* C1: a call whose file declares MD5 or SHA1, in any letter case, has thrown the
\* security error, and it has neither looked up a cache path nor issued a
\* request nor got a response (so it has written nothing either)
C1_LegacyAlgorithmRefused ==
    \A c \in Called :
        Legacy(c) =>
            /\ calls[c].pc = "thrown"
            /\ calls[c].result \in {InsecureMD5, InsecureSHA1}
            /\ calls[c].probed = NoProbe
            /\ calls[c].url = NoRequest
            /\ calls[c].fileResponse = NoResponse

\* a lower-case md5 file whose digest names a file that is in the cache: refused
C1_Witness ==
    \E c \in Called :
        /\ calls[c].file.h.algorithm = <<"m", "d", "5">>
        /\ calls[c].baseUrl # ""
        /\ cache[CachePath(calls[c].file.h.digest)] # NoFile
        /\ calls[c].pc = "thrown"

\* C2: once a call for a file with a named algorithm has returned, every call
\* made later for a file with the same digest (and an algorithm that is neither
\* "none" nor refused) returns at once, with the same path, without a request
\* and without a response to verify
C2_SecondResolveIsCacheHit ==
    [][\A c1, c2 \in 1..MaxCalls :
          ( /\ calls[c1].pc = "returned"
            /\ Named(c1)
            /\ calls[c2].pc = "idle"
            /\ calls'[c2].pc # "idle"
            /\ calls'[c2].file.h.digest = calls[c1].file.h.digest
            /\ calls'[c2].file.h.algorithm # none
            /\ toUpperCase(calls'[c2].file.h.algorithm) \notin {MD5, SHA1} )
          => /\ calls'[c2].pc = "returned"
             /\ calls'[c2].result = calls[c1].result
             /\ calls'[c2].result = CachePath(calls[c1].file.h.digest)
             /\ calls'[c2].url = NoRequest
             /\ calls'[c2].fileResponse = NoResponse
             /\ cache' = cache]_vars

\* the first call downloaded the file; the second, for another path and base URL
\* and the same digest, returned the same path without a request
C2_Witness ==
    /\ calls[1].pc = "returned" /\ Named(1) /\ calls[1].url # NoRequest
    /\ calls[2].pc = "returned" /\ Named(2) /\ calls[2].url = NoRequest
    /\ calls[2].file.h.digest = calls[1].file.h.digest
    /\ calls[2].file.f # calls[1].file.f
    /\ calls[2].baseUrl # calls[1].baseUrl
    /\ calls[2].result = calls[1].result

\* C3: when a call for a file with a named algorithm gets a 200 response whose
\* body's digest, under the declared algorithm, is not the declared digest, it
\* throws the invalid-hash error and the step leaves the cache as it was
C3_MismatchFailsAndWritesNothing ==
    [][\A c \in 1..MaxCalls :
          ( /\ calls[c].pc = "await"
            /\ calls'[c].pc # "await"
            /\ Named(c)
            /\ calls'[c].fileResponse.status = 200
            /\ createHash(calls[c].file.h.algorithm, calls'[c].fileResponse.data)
                   \notin {Unsupported, calls[c].file.h.digest} )
          => /\ calls'[c].pc = "thrown"
             /\ calls'[c].result = InvalidHash
             /\ cache' = cache]_vars

\* a call that missed, got the other body, and failed; no file of that digest
C3_Witness ==
    \E c \in Called :
        /\ Named(c)
        /\ calls[c].pc = "thrown"
        /\ calls[c].result = InvalidHash
        /\ calls[c].fileResponse.status = 200
        /\ createHash(calls[c].file.h.algorithm, calls[c].fileResponse.data)
               # calls[c].file.h.digest
        /\ cache[CachePath(calls[c].file.h.digest)] = NoFile

\* C4: a call for a file with a named algorithm that missed the cache requested
\* baseUrl + file.f, and when it returned, the file at the returned path
\* _cache/<digest> held the body it fetched
C4_FetchesFromBaseUrlPlusPath ==
    \A c \in Called :
        (Named(c) /\ calls[c].url # NoRequest) =>
            /\ calls[c].url = calls[c].baseUrl \o calls[c].file.f
            /\ calls[c].pc = "returned" =>
                   /\ calls[c].result = CachePath(calls[c].file.h.digest)
                   /\ createHash(calls[c].file.h.algorithm, calls[c].fileResponse.data)
                          = calls[c].file.h.digest

\* the algorithm a call hashes the body it fetched with
HashedWith(c) == IF Named(c) THEN calls[c].file.h.algorithm ELSE SHA512

\* the call requested the file (it did not return from the cache lookup)
Downloaded(c) == calls[c].url # NoRequest

\* C13: under every interleaving of the pending calls, every file in the cache
\* directory is named by a digest of its content, and every call that has
\* returned names a file that is there: one that downloaded it names the file
\* holding the body it fetched, whose digest under the declared algorithm
\* (SHA-512 for "none") is the file's name
C13_CacheFilesMatchTheirNames ==
    /\ \A path \in CachePaths :
           cache[path] # NoFile =>
               path \in {CachePath(Sha256Hex[cache[path]]), CachePath(Sha512Hex[cache[path]])}
    /\ \A c \in Called :
           calls[c].pc = "returned" =>
               /\ calls[c].result \in CachePaths
               /\ cache[calls[c].result] # NoFile
               /\ Downloaded(c) =>
                      /\ cache[calls[c].result] = calls[c].fileResponse.data
                      /\ calls[c].result
                             = CachePath(createHash(HashedWith(c), cache[calls[c].result]))

\* two calls for the same digest, not in the cache, were both pending, both
\* downloaded and both wrote the file
C13_Witness ==
    /\ \A c \in {1, 2} :
           /\ calls[c].pc = "returned"
           /\ Named(c)
           /\ Downloaded(c)
    /\ calls[1].file.h.digest = calls[2].file.h.digest
    /\ cache[calls[1].result] = calls[2].fileResponse.data

(***************************************************************************)
(* Loading the flag lists: properties                                      *)
(***************************************************************************)
\* the remote manifests a finished fetchFlagLists call should have kept: those
\* of the sources that answered 200 with a manifest, in the order of the sources
RECURSIVE Fulfilled(_)
Fulfilled(n) ==
    IF n = 0 THEN <<>>
    ELSE Fulfilled(n - 1)
         \o (IF fetches[n].state = "fulfilled" /\ fetches[n].value # JsNull
             THEN <<fetches[n].value>> ELSE <<>>)

\* C5: a remote source that fails to be fetched or parsed does not fail the
\* load: preprocessFlags never throws the remote source's error, and once the
\* load is past fetchFlagLists, flagLists holds the manifests of the sources
\* that did not fail, then the local ones
C5_RemoteFailureIsNotFatal ==
    /\ ~(loadPc = "thrown" /\ loadError = FailedToParseRemote)
    /\ (loadPc \in {"processing", "done"} /\ args.includeFlagsFromDisk) =>
           flagLists = Fulfilled(Len(fetches)) \o readLocalFlagLists.value

\* the manifests of a processed list
Loaded == {processedFlagList[i] : i \in DOMAIN processedFlagList}

\* C12: once a preprocessFlags call that was given manifests and includes the
\* flag lists from disk and config has succeeded, processedFlagList holds the
\* processed form of every manifest the caller gave
C12_CallerManifestsAreProcessed ==
    (loadPc = "done" /\ args.includeFlagsFromDisk) =>
        \A i \in DOMAIN args.flagList : Processed(args.flagList[i]) \in Loaded

(***************************************************************************)
(* Resolving and merging the flag files: properties                        *)
(***************************************************************************)
\* the concatenation of a sequence of sequences
RECURSIVE Flatten(_)
Flatten(seqs) == IF seqs = <<>> THEN <<>> ELSE Head(seqs) \o Flatten(Tail(seqs))

\* the files of the option(s) a feature's value names
SelectedFiles(feature) ==
    IF feature.multiple
    THEN Flatten([j \in DOMAIN feature.value |->
                     IF feature.value[j] \in DOMAIN feature.options
                     THEN feature.options[feature.value[j]] ELSE <<>>])
    ELSE IF feature.value \in DOMAIN feature.options
         THEN feature.options[feature.value] ELSE <<>>

\* an item's base files, then its features' selected files
FilesOf(item) ==
    item.base \o Flatten([k \in DOMAIN item.features |-> SelectedFiles(item.features[k])])

\* over the manifests in load order and their enabled items in insertion order
ExpectedFiles ==
    Flatten([l \in DOMAIN processedFlagList |->
                Flatten([i \in DOMAIN processedFlagList[l] |->
                            IF processedFlagList[l][i].enabled
                            THEN FilesOf(processedFlagList[l][i]) ELSE <<>>])])

\* every value an enabled item's multiple-choice feature selects names an option
ValidSelections ==
    \A l \in DOMAIN processedFlagList : \A i \in DOMAIN processedFlagList[l] :
        LET item == processedFlagList[l][i]
        IN  item.enabled =>
                \A k \in DOMAIN item.features :
                    item.features[k].multiple =>
                        \A j \in DOMAIN item.features[k].value :
                            item.features[k].value[j] \in DOMAIN item.features[k].options

\* C6 as stated: for any list and any selections getFlagFiles returns the
\* concatenation
C6_AnySelectionResolves ==
    returned.op = "getFlagFiles" =>
        /\ ~returned.thrown
        /\ returned.value = ExpectedFiles

\* C6, amended: for a list that is not empty and selections that name existing
\* options in every multiple-choice feature of an enabled item, getFlagFiles
\* returns the concatenation, over the manifests in load order and the enabled
\* items in insertion order, of the base files and then each feature's
\* currently selected files
C6_ResolveFilesInOrder ==
    (returned.op = "getFlagFiles" /\ hasProcessedFlags /\ ValidSelections) =>
        /\ ~returned.thrown
        /\ returned.value = ExpectedFiles

\* the end-to-end scenario after the switch to Vulkan, here with a second
\* manifest loaded before the first and two options selected in Tweaks
C6_Witness ==
    /\ returned.op = "getFlagFiles"
    /\ processedFlagList =
           << FlagListTwo,
              << [FlagListOne[1] EXCEPT !.features[1].value = "Vulkan"],
                 [FlagListOne[2] EXCEPT !.enabled = TRUE,
                                        !.features[1].value = <<"B", "A">>] >> >>
    /\ returned.value = << "_cache/fc", "_cache/p1", "_cache/fb",
                           "_cache/p2", "_cache/fb", "_cache/fa", "_cache/fc" >>

\* the items of a manifest that are enabled
RECURSIVE KeepEnabled(_)
KeepEnabled(lists) ==
    IF lists = <<>> THEN <<>>
    ELSE (IF Head(lists).enabled THEN <<Head(lists)>> ELSE <<>>) \o KeepEnabled(Tail(lists))

\* C7: what getFlagFiles returns is made of the enabled items alone, and a
\* throw is never due to a disabled item: with the disabled items left out of
\* every manifest, the files of all remaining items are the result, and only
\* an enabled item's selection of a missing option makes the call throw
C7_DisabledItemContributesNothing ==
    (returned.op = "getFlagFiles" /\ hasProcessedFlags) =>
        LET kept == [l \in DOMAIN processedFlagList |-> KeepEnabled(processedFlagList[l])]
        IN  /\ returned.thrown => ~ValidSelections
            /\ ~returned.thrown =>
                   returned.value =
                       Flatten([l \in DOMAIN kept |->
                                   Flatten([i \in DOMAIN kept[l] |-> FilesOf(kept[l][i])])])

\* both items of the first manifest are disabled, one of them enabled by
\* default, the other selecting an option that does not exist
C7_Witness ==
    /\ returned.op = "getFlagFiles"
    /\ ~returned.thrown
    /\ processedFlagList =
           << << [FlagListOne[1] EXCEPT !.enabled = FALSE, !.features[1].value = "Vulkan"],
                 [FlagListOne[2] EXCEPT !.features[1].value = <<"Bogus", "B">>] >>,
              FlagListTwo >>
    /\ returned.value = <<"_cache/fc">>

\* the keys of the documents of a list of files
KeysOf(flagFiles) == UNION {DOMAIN disk[flagFiles[i]].doc : i \in DOMAIN flagFiles}

\* the last file of the list that defines the key
LastDefining(flagFiles, key) ==
    CHOOSE i \in DOMAIN flagFiles :
        /\ key \in DOMAIN disk[flagFiles[i]].doc
        /\ \A j \in DOMAIN flagFiles : key \in DOMAIN disk[flagFiles[j]].doc => j <= i

\* C8: over a list of existing files mergeFlagFiles returns a document whose
\* keys are the union of the files' top-level keys, each with the whole value
\* the last file defining it gives it
C8_LastFileWinsPerKey ==
    ( /\ returned.op = "mergeFlagFiles"
      /\ \A i \in DOMAIN returned.args : disk[returned.args[i]].exists )
    => /\ ~returned.thrown
       /\ DOMAIN returned.value = KeysOf(returned.args)
       /\ \A key \in KeysOf(returned.args) :
              returned.value[key]
                  = disk[returned.args[LastDefining(returned.args, key)]].doc[key]

\* [{A:1,B:2},{B:3,C:4}] yields {A:1,B:3,C:4}
C8_Witness ==
    /\ returned.op = "mergeFlagFiles"
    /\ returned.args = <<"_cache/p1", "_cache/fa">>
    /\ returned.value = [k \in {"A", "B", "C"} |->
                            IF k = "A" THEN Num(1) ELSE IF k = "B" THEN Num(3) ELSE Num(4)]

(***************************************************************************)
(* defaultRecursive: properties                                            *)
(***************************************************************************)
\* C9: defaultRecursive returns, a second call on its result returns the same
\* value, and for the empty object it returns the defaults
C9_IdempotentAndDefaultsForEmpty ==
    /\ Len(defaulted) >= 1 =>
           /\ defaulted[1] # TypeError
           /\ obj = EmptyObject => defaulted[1] = defaultObj
    /\ Len(defaulted) = 2 => defaulted[2] = defaulted[1]

\* the same of the calls that return
C9_IdempotentWhenItReturns ==
    /\ (Len(defaulted) >= 1 /\ defaulted[1] # TypeError /\ obj = EmptyObject) =>
           defaulted[1] = defaultObj
    /\ Len(defaulted) = 2 => defaulted[2] = defaulted[1]

\* C10: the result's entry for a key under which the value holds an array is
\* that array, with no element of the default array in it (stated for the keys
\* under which the defaults hold an array too, the case the claim names)
C10_ArraysAreAtomic ==
    (Len(defaulted) >= 1 /\ defaulted[1] # TypeError) =>
        \A key \in DOMAIN obj.m \cap DOMAIN defaultObj.m :
            (obj.m[key].t = "arr" /\ defaultObj.m[key].t = "arr") =>
                defaulted[1].m[key] = obj.m[key]

\* C11: defaultRecursive returns for every value and every defaults object,
\* and under a key where the value holds null and the defaults hold an object
\* the result holds the defaults' object
C11_DefaultRecursiveIsTotal ==
    Len(defaulted) >= 1 =>
        /\ defaulted[1].t # "TypeError"
        /\ \A key \in DOMAIN obj.m \cap DOMAIN defaultObj.m :
               (obj.m[key] = JsNull /\ defaultObj.m[key].t = "obj") =>
                   defaulted[1].m[key] = defaultObj.m[key]

====
